---------------------------- MODULE Spec2Model ----------------------------
(***************************************************************************)
(* Model of src/main.py: the momentum gradient-descent animation.          *)
(*                                                                         *)
(* Reals are modelled in fixed point: every float of the program is an     *)
(* integer count of 1/SCALE units (SCALE = 10^4, the precision the text    *)
(* overlay prints with ".4f").  Products are rounded to the nearest unit.  *)
(* np.sin / np.cos are computed by range reduction modulo 2*pi followed by *)
(* Bhaskara's rational approximation, which stays within [-1, 1].          *)
(*                                                                         *)
(* The driver is matplotlib's FuncAnimation as used by the program:        *)
(* save() calls init_func once, then animate(frame) for each frame of      *)
(* range(TOTAL_FRAMES), grabbing one video frame after each call.          *)
(* The static curve (line, x_range, y_range) and the styling are left out. *)
(***************************************************************************)
EXTENDS Integers, Sequences, FiniteSets

----------------------------------------------------------------------------
(* Fixed-point arithmetic *)

SCALE == 10^4

\* a / b rounded to the nearest integer (b > 0)
RDiv(a, b) == (a + (b \div 2)) \div b

\* product of two fixed-point numbers
Mul(a, b) == RDiv(a * b, SCALE)

Abs(a) == IF a < 0 THEN -a ELSE a

\* pi in fixed point
PI == 31416

\* sin on [0, pi]: 16 x (pi - x) / (5 pi^2 - 4 x (pi - x))
SinHalf(x) ==
    LET p == x * (PI - x)
        den == ((PI * PI) \div 4) * 5 - p
    IN  (4 * p) \div (den \div SCALE)

\* np.sin of a fixed-point angle
sin(a) ==
    LET r == a % (2 * PI)
    IN  IF r <= PI THEN SinHalf(r) ELSE -SinHalf(r - PI)

\* np.cos of a fixed-point angle
cos(a) == sin(a + (PI \div 2))

\* 0.1 * x**2 in fixed point, split so that no product leaves 32 bits
TenthSquare(x) ==
    LET a == Abs(x)
        q == a \div 1000
        r == a % 1000
    IN  q * q * 10 + RDiv(2 * q * r * 10 + RDiv(r * r, 100), 1000)

----------------------------------------------------------------------------
(* Program constants *)

FPS == 15
DURATION == 30
TOTAL_FRAMES == FPS * DURATION
DATA == 50

\* learning_rate = 0.002, momentum = 0.99, in 1/SCALE units
learning_rate == 20
momentum == 9900

margin_x == 2 * SCALE
margin_y == 1 * SCALE

----------------------------------------------------------------------------
(* Bounds of the model *)

\* the initial theta is drawn from Starts + 1 evenly spaced points of [-DATA, DATA]
Starts == 20

\* StepSpec: StepStarts + 1 evenly spaced theta, and velocities
\* +-bound / 2^j for j = 0..VelocityLevels, and 0
StepStarts == 4
VelocityLevels == 8

----------------------------------------------------------------------------
(* Pure functions of the program *)

loss_function(x) ==
    RDiv(5 * sin(3 * x) + 3 * sin(5 * x) + 2 * sin(7 * x), 10) + TenthSquare(x)

loss_gradient(x) ==
    RDiv(15 * cos(3 * x) + 15 * cos(5 * x) + 14 * cos(7 * x), 10) + RDiv(2 * x, 10)

\* a clip that forgets the upper bound
clipNoUpper(x, lo, hi) == IF x < lo THEN lo ELSE x

\* np.clip(x, lo, hi)
clip(x, lo, hi) == IF x < lo THEN lo ELSE IF x > hi THEN hi ELSE x

\* a velocity update that adds the gradient term (ascent instead of descent)
NextVelocityAscent(v, g) == Mul(momentum, v) + Mul(learning_rate, g)

\* a velocity update that forgets the learning rate
NextVelocityNoRate(v, g) == Mul(momentum, v) - g

\* velocity = momentum * velocity - learning_rate * gradient
NextVelocity(v, g) == Mul(momentum, v) - Mul(learning_rate, g)

\* a boundary that reflects the excess instead of discarding it
NextThetaReflect(t, v) ==
    LET x == t + v
        hi == DATA * SCALE
        lo == -DATA * SCALE
    IN  IF x > hi THEN hi - (x - hi) ELSE IF x < lo THEN lo + (lo - x) ELSE x

\* current_theta = np.clip(current_theta + velocity, -DATA, DATA)
NextTheta(t, v) == clip(t + v, -DATA * SCALE, DATA * SCALE)

\* np.linspace(lo, hi, n)
linspace(lo, hi, n) == [i \in 1..n |-> IF i = n THEN hi ELSE lo + RDiv((i - 1) * (hi - lo), n - 1)]

x_tangent(t) == linspace(t - SCALE, t + SCALE, 10)

y_tangent(t, g) ==
    LET xs == x_tangent(t)
    IN  [i \in 1..10 |-> loss_function(t) + RDiv(g * (xs[i] - t), SCALE)]

\* a horizontal window with a margin of 0.5, narrower than the tangent
XLimNarrow(t) == <<t - SCALE \div 2, t + SCALE \div 2>>

XLim(t) == <<t - margin_x, t + margin_x>>

\* a vertical window whose lower edge is put above the loss
YLimAbove(current_loss) == <<current_loss + margin_y, current_loss + margin_y * 3>>

YLim(current_loss) == <<current_loss - margin_y, current_loss + margin_y * 3>>

\* the text overlay written by init()
InitText(t) ==
    [Iteration |-> 0, theta |-> t, Loss |-> loss_function(t), Gradient |-> loss_gradient(t)]

\* the text overlay written by animate(frame)
FrameText(frame, t, g, v) ==
    [Iteration |-> frame, theta |-> t, Loss |-> loss_function(t), Gradient |-> g, Velocity |-> v]

\* a frame sequence one short: range(1, TOTAL_FRAMES)
FrameSeqOneShort == [i \in 1..(TOTAL_FRAMES - 1) |-> i]

\* frames=TOTAL_FRAMES: the frame arguments are range(TOTAL_FRAMES)
FrameSeq == [i \in 1..TOTAL_FRAMES |-> i - 1]

\* np.random.uniform(-DATA, DATA)
InitialThetas(n) == { -DATA * SCALE + (i * 2 * DATA * SCALE) \div n : i \in 0..n }

----------------------------------------------------------------------------
(* State *)

VARIABLES
    pc,             \* "start", "run", "done": position of the animation driver
    cursor,         \* index into FrameSeq of the next frame to draw
    grabbed,        \* number of video frames written by save()
    initial_theta,
    current_theta,
    velocity,
    theta_history,
    loss_history,
    point,          \* data of the marker
    tangent_line,   \* data of the tangent segment: <<xs, ys>>
    text,           \* content of the overlay
    ax_xlim,
    ax_ylim

vars == <<pc, cursor, grabbed, initial_theta, current_theta, velocity, theta_history,
          loss_history, point, tangent_line, text, ax_xlim, ax_ylim>>

\* state after create_gradient_descent_animation() with initial theta t0 and velocity v0
Created(t0, v0) ==
    /\ pc = "start"
    /\ cursor = 1
    /\ grabbed = 0
    /\ initial_theta = t0
    /\ current_theta = t0
    /\ velocity = v0
    /\ theta_history = <<t0>>
    /\ loss_history = <<loss_function(t0)>>
    /\ point = <<>>
    /\ tangent_line = <<>>
    /\ text = <<>>
    /\ ax_xlim = <<0, SCALE>>
    /\ ax_ylim = <<0, SCALE>>

Init == \E t0 \in InitialThetas(Starts) : Created(t0, 0)

\* init(): the init_func of the animation
init ==
    /\ pc = "start"
    /\ pc' = "run"
    /\ point' = <<initial_theta, loss_function(initial_theta)>>
    /\ tangent_line' = <<<<>>, <<>>>>
    /\ text' = InitText(initial_theta)
    /\ UNCHANGED <<cursor, grabbed, initial_theta, current_theta, velocity, theta_history,
                   loss_history, ax_xlim, ax_ylim>>

\* the driver has a frame left to draw
HasNextFrame == pc = "run" /\ cursor <= Len(FrameSeq)

\* the driver has drawn every frame of the sequence
Exhausted == pc = "run" /\ cursor > Len(FrameSeq)

\* animate(frame), followed by the writer grabbing the frame
animate ==
    /\ HasNextFrame
    /\ LET frame == FrameSeq[cursor]
           gradient == loss_gradient(current_theta)
           v == NextVelocity(velocity, gradient)
           t == NextTheta(current_theta, v)
           current_loss == loss_function(t)
       IN  /\ velocity' = v
           /\ current_theta' = t
           /\ theta_history' = Append(theta_history, t)
           /\ loss_history' = Append(loss_history, current_loss)
           /\ point' = <<t, current_loss>>
           /\ tangent_line' = <<x_tangent(t), y_tangent(t, gradient)>>
           /\ text' = FrameText(frame, t, gradient, v)
           /\ ax_xlim' = XLim(t)
           /\ ax_ylim' = YLim(current_loss)
    /\ cursor' = cursor + 1
    /\ grabbed' = grabbed + 1
    /\ UNCHANGED <<pc, initial_theta>>

\* the frame sequence is exhausted: save() returns (repeat=False)
finish ==
    /\ Exhausted
    /\ pc' = "done"
    /\ UNCHANGED <<cursor, grabbed, initial_theta, current_theta, velocity, theta_history,
                   loss_history, point, tangent_line, text, ax_xlim, ax_ylim>>

Next == init \/ animate \/ finish

Spec == Init /\ [][Next]_vars

----------------------------------------------------------------------------
(* The step applied to arbitrary states *)

\* |gradient| <= 1.5 + 1.5 + 1.4 + 0.2 * DATA on [-DATA, DATA]
GradientBound == (44 * SCALE) \div 10 + RDiv(2 * DATA * SCALE, 10)

\* learning_rate * GradientBound / (1 - momentum)
VelocityBound == RDiv(learning_rate * GradientBound, SCALE - momentum)

StepVelocities ==
    {0} \cup { VelocityBound \div (2^j) : j \in 0..VelocityLevels }
        \cup { -(VelocityBound \div (2^j)) : j \in 0..VelocityLevels }

\* the engine placed in any state (theta, velocity) of a grid, as a test of the step
\* function would place it; every state Spec reaches from velocity 0 satisfies
\* |theta| <= DATA and |velocity| <= VelocityBound
InitAnyState ==
    \E t0 \in InitialThetas(StepStarts) : \E v0 \in StepVelocities : Created(t0, v0)

StepSpec == InitAnyState /\ [][Next]_vars

----------------------------------------------------------------------------
(* Claims *)

L == DATA * SCALE

Last(s) == s[Len(s)]

\* a step of the transition is a call of animate
IsAnimateStep == grabbed' = grabbed + 1

\* C1: the stored parameter and every value of theta_history lie in [-L, L],
\* after every step, from any theta0 in [-L, L] (checked from every velocity
\* within the velocity bound, which includes the program's initial velocity 0)
C1_Boundedness ==
    /\ -L <= current_theta /\ current_theta <= L
    /\ \A i \in 1..Len(theta_history) : -L <= theta_history[i] /\ theta_history[i] <= L

\* a step whose velocity pushed outward at the upper boundary has been clamped
C1_Witness ==
    /\ Len(theta_history) >= 2
    /\ theta_history[Len(theta_history) - 1] + velocity > L
    /\ current_theta = L

C3_StepIndexIsCompletedUpdates ==
    (grabbed >= 1) => (text.Iteration = Len(theta_history) - 1)

C6_WindowContainment ==
    (grabbed >= 1) =>
        /\ ax_xlim[1] < ax_xlim[2]
        /\ ax_ylim[1] < ax_ylim[2]
        /\ ax_xlim[1] <= text.theta /\ text.theta <= ax_xlim[2]
        /\ ax_ylim[1] <= text.Loss /\ text.Loss <= ax_ylim[2]
        /\ point = <<text.theta, text.Loss>>
        /\ text.theta = current_theta

C6_Witness ==
    /\ grabbed = TOTAL_FRAMES
    /\ ax_xlim = <<current_theta - 2 * SCALE, current_theta + 2 * SCALE>>
    /\ ax_ylim = <<text.Loss - SCALE, text.Loss + 3 * SCALE>>

\* C8: one step takes the gradient at the pre-update theta, sets
\* velocity' = momentum * velocity - learning_rate * g and
\* theta' = clamp(theta + velocity'); the record holds theta', the loss at theta',
\* g and velocity'; the step starts from the state the previous step left and
\* appends exactly one value to the histories
C8_StepResult ==
    [][IsAnimateStep =>
        LET g == loss_gradient(current_theta)
            v == RDiv(momentum * velocity, SCALE) - RDiv(learning_rate * g, SCALE)
            x == current_theta + v
            t == IF x < -L THEN -L ELSE IF x > L THEN L ELSE x
        IN  /\ current_theta = Last(theta_history)
            /\ velocity' = v
            /\ current_theta' = t
            /\ text'.theta = t
            /\ text'.Loss = loss_function(t)
            /\ text'.Gradient = g
            /\ text'.Velocity = v
            /\ theta_history' = Append(theta_history, t)
            /\ loss_history' = Append(loss_history, loss_function(t))]_vars

C8_Witness ==
    /\ grabbed >= 2
    /\ text.Velocity # 0
    /\ text.Gradient # 0
    /\ text.theta # theta_history[Len(theta_history) - 1]

TangentInsideX ==
    \A i \in 1..10 : ax_xlim[1] <= tangent_line[1][i] /\ tangent_line[1][i] <= ax_xlim[2]

TangentInsideY ==
    \A i \in 1..10 : ax_ylim[1] <= tangent_line[2][i] /\ tangent_line[2][i] <= ax_ylim[2]

\* C9 as claimed: in every frame the tangent segment lies inside the window,
\* horizontally and vertically
C9_TangentFullyVisible ==
    (grabbed >= 1) => (TangentInsideX /\ TangentInsideY)

\* C9 as amended: in every frame the tangent segment lies inside the window
\* horizontally; vertically it does exactly when |gradient| <= margin_y
C9_TangentVisibility ==
    (grabbed >= 1) =>
        /\ TangentInsideX
        /\ TangentInsideY <=> (Abs(text.Gradient) <= margin_y)

\* a frame whose non-zero gradient is small enough for the whole tangent to show
C9_Witness ==
    /\ grabbed >= 1
    /\ text.Gradient # 0
    /\ Abs(text.Gradient) <= margin_y
    /\ TangentInsideY

\* C10: in a run started with velocity 0 the velocity never leaves
\* [-VelocityBound, VelocityBound] (2.88), and the gradient of every step is
\* within GradientBound (14.4)
C10_VelocityBound ==
    /\ Abs(velocity) <= VelocityBound
    /\ (grabbed >= 1) => (Abs(text.Gradient) <= GradientBound)

\* the velocity has built up to a fifth of the bound
C10_Witness == grabbed >= 1 /\ Abs(velocity) * 5 >= VelocityBound

=============================================================================
